---- MODULE Spec2Model ----
(***************************************************************************)
(* Model of src/main.py: the request handler generate_and_run_code and the *)
(* four functions it chains (suggest_stack, generate_code, execute_code,   *)
(* refine_code), against every behaviour of the two external services:     *)
(* the completion service (client.chat.completions.create) and the         *)
(* execution backend (requests.post to REPLIT_API_URL).                    *)
(*                                                                         *)
(* Python values that occur in positions of mixed type (the decoded JSON   *)
(* body, the nullable message content, the values of the response object)  *)
(* are tagged records; values the code types as str (task, stack, code)    *)
(* are strings.                                                            *)
(***************************************************************************)
EXTENDS Integers, Sequences, FiniteSets, TLC

VARIABLES
    pc,               \* line of generate_and_run_code about to run, or its outcome
    request,          \* the query parameters the caller supplied (name -> string)
    task,             \* local `task` of the handler
    stack,            \* local `stack` of the handler
    code,             \* local `code`
    execution_result, \* local `execution_result`
    improved_code,    \* local `improved_code`
    response,         \* what the handler returned, if it returned
    exception,        \* the exception that left the handler, if one did
    calls,            \* the functions of main.py invoked so far, in order
    llm,              \* the completion-service calls so far: prompt and outcome
    backend           \* the execution backend's behaviour on the request's POST

vars == <<pc, request, task, stack, code, execution_result, improved_code,
          response, exception, calls, llm, backend>>

----------------------------------------------------------------------------
(* Bounds of the model. *)

\* number of distinct non-empty texts the completion service may answer with
NumTexts == 2

\* number of distinct non-200 statuses the execution backend may answer with
NumBadStatuses == 2

----------------------------------------------------------------------------
(* Python values. *)

PyNone == [type |-> "NoneType"]
PyStr(s) == [type |-> "str", s |-> s]
PyInt(n) == [type |-> "int", n |-> n]
PyList(l) == [type |-> "list", elems |-> l]
PyDict(d) == [type |-> "dict", items |-> d]

\* str(v), as an f-string applies it to an interpolated value
PyFormat(v) ==
    CASE v.type = "str" -> v.s
      [] v.type = "NoneType" -> "None"
      [] v.type = "int" -> ToString(v.n)
      [] OTHER -> "<object>"

\* s in t, for two str
IsSubstring(s, t) ==
    \E i \in 1..(Len(t) - Len(s) + 1) : SubSeq(t, i, i + Len(s) - 1) = s

\* `key in v`: membership for a dict (keys), a list (elements) and a str
\* (substring); TypeError for a value that is not a container
PyContains(key, v) ==
    CASE v.type = "dict" -> IF key \in DOMAIN v.items THEN "True" ELSE "False"
      [] v.type = "list" ->
            IF \E i \in DOMAIN v.elems : v.elems[i] = PyStr(key) THEN "True" ELSE "False"
      [] v.type = "str" -> IF IsSubstring(key, v.s) THEN "True" ELSE "False"
      [] OTHER -> "TypeError"

\* whether `v[key]` with a str key evaluates (a dict holding the key) or raises
PyCanIndex(v, key) == v.type = "dict" /\ key \in DOMAIN v.items

PyNotNever(s) == FALSE

PyNotAlways(s) == TRUE

\* `not s` for a str
PyNot(s) == s = ""

\* outcome of a call: a returned value or a raised exception
Return(v) == [kind |-> "return", value |-> v]
Raise(e) == [kind |-> "raise", exc |-> e]
Exc(cls, msg) == [cls |-> cls, msg |-> msg]

\* str(e) of an exception built from one message argument
ExcStr(e) == e.msg

TypeError == Exc("TypeError", "argument is not iterable or indices must be integers")

IndexError == Exc("IndexError", "list index out of range")

----------------------------------------------------------------------------
(* Behaviours of the two external services. *)

StatusOK == 200

BadStatuses == {400 + 100 * i : i \in 0..(NumBadStatuses - 1)}

Texts == {"generated text " \o ToString(i) : i \in 1..NumTexts}

ProviderFailures ==
    { Exc("AuthenticationError", "Incorrect API key provided"),
      Exc("RateLimitError", "Rate limit reached"),
      Exc("APIConnectionError", "Connection error.") }

\* client.chat.completions.create: it raises, or answers with a list of
\* choices (the message content of each): no choice at all, or one whose
\* content is None, the empty string, or a text
CompletionOutcomes ==
    {Raise(e) : e \in ProviderFailures}
        \cup {Return(<< >>), Return(<<PyNone>>), Return(<<PyStr("")>>)}
        \cup {Return(<<PyStr(t)>>) : t \in Texts}

JsonBodies ==
    { PyDict("status" :> PyStr("ran")),
      PyDict("output" :> PyStr("ok")),
      PyDict("error" :> PyStr("boom")),
      PyDict("error" :> PyNone @@ "output" :> PyStr("")),
      PyList(<<PyStr("ok")>>),
      PyList(<<PyStr("error")>>),
      PyStr("ok"),
      PyStr("an error occurred"),
      PyInt(42),
      PyNone }

TransportFailures ==
    { Exc("Timeout", "Read timed out."),
      Exc("ConnectionError", "Name or service not known"),
      Exc("ConnectionError", "Connection refused") }

JSONDecodeError == Exc("JSONDecodeError", "Expecting value: line 1 column 1 (char 0)")

\* requests.post: it raises, or answers with a status and a body that
\* response.json() decodes or fails to decode
BackendOutcomes ==
    {[kind |-> "exception", exc |-> e] : e \in TransportFailures}
        \cup {[kind |-> "response", status |-> StatusOK, decodable |-> TRUE, json |-> b] :
                b \in JsonBodies}
        \cup {[kind |-> "response", status |-> s, decodable |-> d, json |-> PyNone] :
                s \in BadStatuses \cup {StatusOK}, d \in {FALSE}}
        \cup {[kind |-> "response", status |-> s, decodable |-> TRUE,
               json |-> PyDict("detail" :> PyStr("bad request"))] : s \in BadStatuses}

NoBackend == [kind |-> "none"]

----------------------------------------------------------------------------
(* The request. *)

DefaultTask == "A ToDo App"
DefaultStack == "Angular"

TaskParams == {"", "Build a counter app"}
StackParams == {"", "React"}

\* the query strings a caller may send: each parameter supplied or omitted
Requests ==
    {[p \in {} |-> ""]}
        \cup {("task" :> t) : t \in TaskParams}
        \cup {("stack" :> s) : s \in StackParams}
        \cup {("task" :> t @@ "stack" :> s) : t \in TaskParams, s \in StackParams}

Param(req, name, default) == IF name \in DOMAIN req THEN req[name] ELSE default

----------------------------------------------------------------------------
(* The functions of main.py, as functions of their arguments and of the    *)
(* outcome of the one external call each makes.                            *)

SuggestPrompt(t) ==
    "Suggest the best tech stack for this project: " \o t
        \o ". Include frontend, backend, mobile (if applicable), and any required libraries."

GeneratePrompt(t, s) ==
    "Generate a application for " \o t \o ". Use " \o s \o " and apply best practices."

RefinementPrompt(t, s, prev_code, result) ==
    "The following full-stack application code was generated for task: " \o t \o "\n"
        \o "Stack: " \o s \o "\n"
        \o "Code:\n" \o prev_code \o "\n"
        \o "Execution Result:\n" \o PyFormat(result) \o "\n"
        \o "Please improve the code to fix errors and optimize performance."

\* lines 48-51 and 66-69: the content, or the sentinel when it is None
ContentOr(content, sentinel) ==
    IF content.type = "NoneType" THEN sentinel ELSE content.s

\* response.choices[0].message.content of a completion call: the call's
\* exception, an IndexError on an empty list of choices, or the content
FirstChoiceContent(outcome) ==
    IF outcome.kind = "raise" THEN outcome
    ELSE IF outcome.value = << >> THEN Raise(IndexError)
    ELSE Return(outcome.value[1])

\* suggest_stack given the outcome of its completion call: no try/except
suggest_stack_result(outcome) ==
    LET content == FirstChoiceContent(outcome)
    IN  IF content.kind = "raise" THEN content
        ELSE Return(ContentOr(content.value, "Unknown stack"))

\* a generate_code that answers the sentinel when its completion call fails
generate_code_swallows(outcome) ==
    LET content == FirstChoiceContent(outcome)
    IN  IF content.kind = "raise" THEN Return("Unknown code")
        ELSE Return(ContentOr(content.value, "Unknown code"))

\* generate_code given the outcome of its completion call: no try/except
generate_code_result(outcome) ==
    LET content == FirstChoiceContent(outcome)
    IN  IF content.kind = "raise" THEN content
        ELSE Return(ContentOr(content.value, "Unknown code"))

StatusErrorNoCode(status) ==
    PyDict("error" :> PyStr("Execution failed"))

StatusError(status) ==
    PyDict("error" :> PyStr("Execution failed with status " \o ToString(status)))

\* the body of execute_code's try block
execute_code_try(outcome) ==
    IF outcome.kind = "exception" THEN Raise(outcome.exc)
    ELSE IF outcome.status = StatusOK
         THEN IF outcome.decodable THEN Return(outcome.json) ELSE Raise(JSONDecodeError)
         ELSE Return(StatusError(outcome.status))

execute_code_uncaught(outcome) == execute_code_try(outcome)

\* execute_code: the try block under `except Exception`
execute_code(outcome) ==
    LET r == execute_code_try(outcome)
    IN  IF r.kind = "raise" THEN Return(PyDict("error" :> PyStr(ExcStr(r.exc)))) ELSE r

----------------------------------------------------------------------------
(* The handler generate_and_run_code, one action per step between external *)
(* calls.                                                                  *)

NoResponse == [returned |-> FALSE]
Responded(body) == [returned |-> TRUE, body |-> body]
NoException == Exc("", "")

ErrorResponseBoth(err, improved) ==
    "error" :> err @@ "improved_code" :> PyStr(improved) @@ "generated_code" :> PyStr(improved)

ErrorResponse(err, improved) ==
    "error" :> err @@ "improved_code" :> PyStr(improved)

SuccessResponse(c, result) ==
    "generated_code" :> PyStr(c) @@ "execution_result" :> result

Init ==
    /\ pc = "idle"
    /\ request = [p \in {} |-> ""]
    /\ task = ""
    /\ stack = ""
    /\ code = ""
    /\ execution_result = PyNone
    /\ improved_code = ""
    /\ response = NoResponse
    /\ exception = NoException
    /\ calls = << >>
    /\ llm = << >>
    /\ backend = NoBackend

\* lines 108-112: the framework binds the parameters, defaults for omitted ones
Receive ==
    /\ pc = "idle"
    /\ \E req \in Requests :
        /\ request' = req
        /\ task' = Param(req, "task", DefaultTask)
        /\ stack' = Param(req, "stack", DefaultStack)
    /\ pc' = "113"
    /\ UNCHANGED <<code, execution_result, improved_code, response, exception,
                   calls, llm, backend>>

\* lines 113-114: stack = suggest_stack(task)
SuggestStack ==
    /\ pc = "113"
    /\ PyNot(stack)
    /\ \E outcome \in CompletionOutcomes :
        LET r == suggest_stack_result(outcome) IN
        /\ calls' = Append(calls, [fn |-> "suggest_stack", task |-> task])
        /\ llm' = Append(llm, [prompt |-> SuggestPrompt(task), outcome |-> outcome])
        /\ IF r.kind = "raise"
           THEN /\ pc' = "raised"
                /\ exception' = r.exc
                /\ UNCHANGED stack
           ELSE /\ pc' = "116"
                /\ stack' = r.value
                /\ UNCHANGED exception
    /\ UNCHANGED <<request, task, code, execution_result, improved_code, response, backend>>

\* line 116: code = generate_code(task, stack)
GenerateCode ==
    /\ \/ pc = "113" /\ ~PyNot(stack)
       \/ pc = "116"
    /\ \E outcome \in CompletionOutcomes :
        LET r == generate_code_result(outcome) IN
        /\ calls' = Append(calls, [fn |-> "generate_code", task |-> task, stack |-> stack])
        /\ llm' = Append(llm, [prompt |-> GeneratePrompt(task, stack), outcome |-> outcome])
        /\ IF r.kind = "raise"
           THEN /\ pc' = "raised"
                /\ exception' = r.exc
                /\ UNCHANGED code
           ELSE /\ pc' = "118"
                /\ code' = r.value
                /\ UNCHANGED exception
    /\ UNCHANGED <<request, task, stack, execution_result, improved_code, response, backend>>

\* line 118: execution_result = execute_code(code)
ExecuteCode ==
    /\ pc = "118"
    /\ \E outcome \in BackendOutcomes :
        LET r == execute_code(outcome) IN
        /\ backend' = outcome
        /\ calls' = Append(calls, [fn |-> "execute_code", code |-> code])
        /\ IF r.kind = "raise"
           THEN /\ pc' = "raised"
                /\ exception' = r.exc
                /\ UNCHANGED execution_result
           ELSE /\ pc' = "120"
                /\ execution_result' = r.value
                /\ UNCHANGED exception
    /\ UNCHANGED <<request, task, stack, code, improved_code, response, llm>>

\* lines 120-123: the membership test or the subscript raises TypeError
SubscriptFails ==
    /\ pc = "120"
    /\ \/ PyContains("error", execution_result) = "TypeError"
       \/ /\ PyContains("error", execution_result) = "True"
          /\ ~PyCanIndex(execution_result, "error")
    /\ pc' = "raised"
    /\ exception' = TypeError
    /\ UNCHANGED <<request, task, stack, code, execution_result, improved_code,
                   response, calls, llm, backend>>

\* a refinement whose improved code goes back to line 118 for one more run
RefineCodeRetry ==
    /\ pc = "120"
    /\ PyContains("error", execution_result) = "True"
    /\ PyCanIndex(execution_result, "error")
    /\ \E outcome \in CompletionOutcomes :
        LET err == execution_result.items["error"]
            refinement_prompt == RefinementPrompt(task, stack, code, err)
            r == generate_code_result(outcome)
        IN
        /\ calls' = calls \o
                <<[fn |-> "refine_code", task |-> task, stack |-> stack,
                   prev_code |-> code, execution_result |-> err],
                  [fn |-> "generate_code", task |-> refinement_prompt, stack |-> stack]>>
        /\ llm' = Append(llm, [prompt |-> GeneratePrompt(refinement_prompt, stack),
                               outcome |-> outcome])
        /\ IF r.kind = "raise"
           THEN /\ pc' = "raised"
                /\ exception' = r.exc
                /\ UNCHANGED <<improved_code, code>>
           ELSE /\ pc' = IF Len(calls) < 4 THEN "118" ELSE "returned"
                /\ improved_code' = r.value
                /\ code' = r.value
                /\ UNCHANGED exception
        /\ response' = IF r.kind = "return" /\ Len(calls) >= 4
                       THEN Responded(ErrorResponse(err, r.value)) ELSE response
    /\ UNCHANGED <<request, task, stack, execution_result, backend>>

\* lines 120-127: refine_code, which delegates to generate_code (line 105)
RefineCode ==
    /\ pc = "120"
    /\ PyContains("error", execution_result) = "True"
    /\ PyCanIndex(execution_result, "error")
    /\ \E outcome \in CompletionOutcomes :
        LET err == execution_result.items["error"]
            refinement_prompt == RefinementPrompt(task, stack, code, err)
            r == generate_code_result(outcome)
        IN
        /\ calls' = calls \o
                <<[fn |-> "refine_code", task |-> task, stack |-> stack,
                   prev_code |-> code, execution_result |-> err],
                  [fn |-> "generate_code", task |-> refinement_prompt, stack |-> stack]>>
        /\ llm' = Append(llm, [prompt |-> GeneratePrompt(refinement_prompt, stack),
                               outcome |-> outcome])
        /\ IF r.kind = "raise"
           THEN /\ pc' = "raised"
                /\ exception' = r.exc
                /\ UNCHANGED <<improved_code, response>>
           ELSE /\ pc' = "returned"
                /\ improved_code' = r.value
                /\ response' = Responded(ErrorResponse(err, r.value))
                /\ UNCHANGED exception
    /\ UNCHANGED <<request, task, stack, code, execution_result, backend>>

\* line 129
ReturnSuccess ==
    /\ pc = "120"
    /\ PyContains("error", execution_result) = "False"
    /\ pc' = "returned"
    /\ response' = Responded(SuccessResponse(code, execution_result))
    /\ UNCHANGED <<request, task, stack, code, execution_result, improved_code,
                   exception, calls, llm, backend>>

Next ==
    \/ Receive
    \/ SuggestStack
    \/ GenerateCode
    \/ ExecuteCode
    \/ SubscriptFails
    \/ RefineCode
    \/ ReturnSuccess

Spec == Init /\ [][Next]_vars

----------------------------------------------------------------------------
(* Vocabulary of the properties. *)

Terminated == pc \in {"returned", "raised"}

Count(fn) == Cardinality({i \in DOMAIN calls : calls[i].fn = fn})

FnSeq == [i \in DOMAIN calls |-> calls[i].fn]

IsPrefix(s, t) == Len(s) <= Len(t) /\ \A i \in DOMAIN s : s[i] = t[i]

SuccessKeys == {"generated_code", "execution_result"}
ErrorKeys == {"error", "improved_code"}

\* the parameters as the handler sees them, defaults applied
NonEmptyInputs ==
    /\ Param(request, "task", DefaultTask) # ""
    /\ Param(request, "stack", DefaultStack) # ""

Executed == backend.kind # "none"

Answered200 == backend.kind = "response" /\ backend.status = StatusOK

\* the backend answered 200 and the body decoded
Decoded200 == Answered200 /\ backend.decodable

\* a non-200 status, a transport exception of the POST, or an undecodable body
ExecutionFailed ==
    \/ backend.kind = "exception"
    \/ backend.kind = "response" /\ backend.status # StatusOK
    \/ Answered200 /\ ~backend.decodable

ExpectedErrorText ==
    IF backend.kind = "exception" THEN backend.exc.msg
    ELSE IF backend.status # StatusOK
         THEN "Execution failed with status " \o ToString(backend.status)
         ELSE "Expecting value: line 1 column 1 (char 0)"

LastCompletion == llm[Len(llm)]

\* a completion call failed: it raised, or it answered without any choice
Failed(outcome) == outcome.kind = "raise" \/ outcome.value = << >>

FailureOf(outcome) == IF outcome.kind = "raise" THEN outcome.exc ELSE IndexError

ProviderFailed == llm # << >> /\ Failed(LastCompletion.outcome)

\* the text a generation call hands back for a completion that answered
TextOf(outcome, sentinel) ==
    IF outcome.value[1].type = "NoneType" THEN sentinel ELSE outcome.value[1].s

----------------------------------------------------------------------------
(* C1 *)

\* C1 (as stated): every request with a non-empty task and a non-empty stack
\* ends, whatever the completion service and the backend do, with a returned
\* object whose key set is exactly {generated_code, execution_result} or
\* exactly {error, improved_code}.
C1_AlwaysOneShape ==
    (Terminated /\ NonEmptyInputs) =>
        /\ response.returned
        /\ DOMAIN response.body \in {SuccessKeys, ErrorKeys}

\* C1 (amended): such a request ends either with a returned object whose key
\* set is exactly one of the two pairs, or with no response because an
\* exception left the handler; the latter only when a completion-service call
\* failed (raised, or answered without a choice) or the backend answered 200
\* with a decoded body that is not an object.
C1_OneShapeOrPropagates ==
    (Terminated /\ NonEmptyInputs) =>
        \/ /\ pc = "returned"
           /\ response.returned
           /\ DOMAIN response.body \in {SuccessKeys, ErrorKeys}
        \/ /\ pc = "raised"
           /\ ~response.returned
           /\ \/ ProviderFailed /\ exception = FailureOf(LastCompletion.outcome)
              \/ /\ Decoded200
                 /\ backend.json.type # "dict"
                 /\ exception = TypeError

C1_Witness ==
    /\ pc = "returned"
    /\ NonEmptyInputs
    /\ DOMAIN response.body = ErrorKeys
    /\ backend.kind = "exception"

----------------------------------------------------------------------------
(* C2 *)

\* C2: whenever the backend answers 200 with a decodable body B, execute_code
\* returns B unchanged, refine_code is not invoked, and the handler responds
\* with {generated_code: the submitted code, execution_result: B}.
C2_Status200IsSuccess ==
    Decoded200 =>
        /\ execution_result = backend.json
        /\ Count("refine_code") = 0
        /\ Terminated =>
            /\ pc = "returned"
            /\ response.returned
            /\ DOMAIN response.body = SuccessKeys
            /\ response.body["generated_code"] = PyStr(calls[Len(calls)].code)
            /\ response.body["execution_result"] = backend.json

----------------------------------------------------------------------------
(* C3 *)

\* C3 (as stated): whenever execution fails, the request ends with the
\* response {error: E, improved_code: C}, E the status message or the
\* exception's text, C the text of the single refinement call.
C3_FailureAlwaysAnswered ==
    (Terminated /\ ExecutionFailed) =>
        /\ pc = "returned"
        /\ response.returned
        /\ DOMAIN response.body = ErrorKeys
        /\ response.body["error"] = PyStr(ExpectedErrorText)

\* C3 (amended): whenever execution fails, refine_code is invoked once with
\* the error text E; if its completion call answers, the request ends with
\* {error: E, improved_code: C}, C being the text that call returned; if its
\* completion call fails, that exception leaves the handler and there is no
\* response.
C3_FailureAnsweredUnlessProviderFails ==
    (Terminated /\ ExecutionFailed) =>
        LET E == PyStr(ExpectedErrorText) IN
        /\ Count("refine_code") = 1
        /\ \A i \in DOMAIN calls :
              calls[i].fn = "refine_code" => calls[i].execution_result = E
        /\ IF Failed(LastCompletion.outcome)
           THEN /\ pc = "raised"
                /\ ~response.returned
                /\ exception = FailureOf(LastCompletion.outcome)
           ELSE /\ pc = "returned"
                /\ response.returned
                /\ DOMAIN response.body = ErrorKeys
                /\ response.body["error"] = E
                /\ response.body["improved_code"] =
                      PyStr(TextOf(LastCompletion.outcome, "Unknown code"))

C3_Witness ==
    /\ pc = "returned"
    /\ backend.kind = "response"
    /\ backend.status = 400
    /\ response.body["error"] = PyStr("Execution failed with status 400")

----------------------------------------------------------------------------
(* C4 *)

\* C4: execute_code never raises: whatever the backend does, the handler gets
\* a value back from it; for a transport exception or an undecodable body the
\* value is {"error": str(exception)}, for a non-200 status the status
\* message, for a decoded 200 body the body.
C4_ExecuteNeverRaises ==
    Executed =>
        /\ pc \in {"120", "returned", "raised"}
        /\ exception \notin (TransportFailures \cup {JSONDecodeError})
        /\ backend.kind = "exception" =>
              execution_result = PyDict("error" :> PyStr(backend.exc.msg))
        /\ (Answered200 /\ ~backend.decodable) =>
              execution_result = PyDict("error" :> PyStr(JSONDecodeError.msg))
        /\ (backend.kind = "response" /\ backend.status # StatusOK) =>
              execution_result = PyDict("error" :> PyStr(ExpectedErrorText))
        /\ Decoded200 => execution_result = backend.json

C4_Witness ==
    /\ pc = "120"
    /\ backend.kind = "exception"
    /\ backend.exc.msg = "Connection refused"
    /\ execution_result = PyDict("error" :> PyStr("Connection refused"))

----------------------------------------------------------------------------
(* C5 *)

\* C5 (as stated): if the stack parameter is omitted or empty, suggest_stack
\* is the first function the handler invokes.
C5_OmittedOrEmptySuggests ==
    (pc \notin {"idle", "113"} /\ Param(request, "stack", "") = "") =>
        calls[1].fn = "suggest_stack"

\* C5 (amended): if the stack parameter is supplied as the empty string,
\* suggest_stack is invoked first, on the task, and every generate_code call
\* comes after it and receives the stack it returned.
C5_EmptySuggests ==
    (pc \notin {"idle", "113"} /\ "stack" \in DOMAIN request /\ request["stack"] = "") =>
        /\ calls[1] = [fn |-> "suggest_stack", task |-> task]
        /\ \A i \in DOMAIN calls :
              calls[i].fn = "generate_code" =>
                  /\ i > 1
                  /\ ~Failed(llm[1].outcome)
                  /\ calls[i].stack = TextOf(llm[1].outcome, "Unknown stack")

C5_Witness ==
    /\ pc = "118"
    /\ "stack" \in DOMAIN request
    /\ request["stack"] = ""
    /\ calls[2].fn = "generate_code"
    /\ calls[2].stack \in Texts

----------------------------------------------------------------------------
(* C6 *)

\* C6: if the request supplies a non-empty stack, suggest_stack is never
\* invoked, on either path, and every generate_code call receives the
\* caller's stack.
C6_NonEmptyStackNeverSuggests ==
    ("stack" \in DOMAIN request /\ request["stack"] # "") =>
        /\ Count("suggest_stack") = 0
        /\ \A i \in DOMAIN calls :
              calls[i].fn = "generate_code" => calls[i].stack = request["stack"]

C6_Witness ==
    /\ pc = "returned"
    /\ "stack" \in DOMAIN request
    /\ request["stack"] = "React"
    /\ Count("refine_code") = 1
    /\ Count("generate_code") = 2

----------------------------------------------------------------------------
(* C7 *)

\* C7: refine_code is invoked exactly once when execution failed (a non-200
\* status or an exception of the submission) and zero times otherwise.
C7_RefineOnceIffFailed ==
    (Terminated /\ Executed) =>
        Count("refine_code") = (IF ExecutionFailed THEN 1 ELSE 0)

----------------------------------------------------------------------------
(* C8 *)

\* C8: a completion call that fails (it raises, or answers without a choice)
\* is the last thing the request does: the exception leaves the handler, no function is invoked after the one that
\* made the call, and nothing is returned.
C8_ProviderFailurePropagates ==
    \A i \in DOMAIN llm :
        Failed(llm[i].outcome) =>
            /\ i = Len(llm)
            /\ pc = "raised"
            /\ exception = FailureOf(llm[i].outcome)
            /\ ~response.returned
            /\ calls[Len(calls)].fn \in {"suggest_stack", "generate_code"}
            /\ Len(calls) = IF Count("refine_code") = 1 THEN i + 2 ELSE i

C8_Witness ==
    /\ pc = "raised"
    /\ Len(llm) = 3
    /\ llm[3].outcome.kind = "raise"
    /\ exception.cls = "RateLimitError"

----------------------------------------------------------------------------
(* C9 *)

CallOrder == <<"generate_code", "execute_code", "refine_code", "generate_code">>

\* C9: the calls of a request are a prefix of [suggest_stack,] generate_code,
\* execute_code, refine_code (with its generate_code); execute_code runs at
\* most once, on the code the first generate_code returned, and the request
\* is over once the refinement has been made.
C9_StrictSequence ==
    /\ \/ IsPrefix(FnSeq, CallOrder)
       \/ IsPrefix(FnSeq, <<"suggest_stack">> \o CallOrder)
    /\ Count("execute_code") <= 1
    /\ \A i \in DOMAIN calls :
          calls[i].fn = "execute_code" =>
              /\ ~Failed(llm[i - 1].outcome)
              /\ calls[i].code = TextOf(llm[i - 1].outcome, "Unknown code")
    /\ Count("refine_code") = 1 => Terminated

C9_Witness ==
    /\ pc = "returned"
    /\ Len(calls) = 5
    /\ calls[3].fn = "execute_code"
    /\ improved_code \in Texts
    /\ improved_code # calls[3].code

----------------------------------------------------------------------------
(* C10 *)

\* C10: every generate_code call receives a non-empty task and a non-empty
\* stack.
C10_GenerateArgsNonEmpty ==
    \A i \in DOMAIN calls :
        calls[i].fn = "generate_code" => calls[i].task # "" /\ calls[i].stack # ""

====
